---- MODULE Spec2Model ----
(***************************************************************************)
(* Model of ModelBenchmarkingComponent (model-benchmarking.component.ts):  *)
(* the page's fields, its handlers, the two asynchronous resumptions (the  *)
(* catalog subscription and the 1200 ms ranking timer) and the ranking     *)
(* routine.  Scores and accuracies are kept in hundredths (0.87 is 87).    *)
(***************************************************************************)
EXTENDS Integers, Sequences, FiniteSets, TLC

VARIABLES
    initialized,       \* ngOnInit has run
    inputMode,         \* 'single' | 'dataset'
    isRunning,
    statusMessage,
    modelPoolAssets,   \* sequence of assets [id, name]
    selectedAssetIds,  \* sequence of ids
    isLoadingAssets,
    assetsError,
    rankingRows,       \* sequence of RankingRow records
    rankTimers,        \* pending window.setTimeout callbacks of runRanking
    pendingFetches     \* subscriptions of loadModelPool still awaiting an outcome

vars == <<initialized, inputMode, isRunning, statusMessage, modelPoolAssets,
          selectedAssetIds, isLoadingAssets, assetsError, rankingRows,
          rankTimers, pendingFetches>>

(***************************************************************************)
(* Bounds                                                                  *)
(***************************************************************************)
\* catalog fetches that may be awaiting their outcome at the same time
MaxPendingFetches == 2
\* longest ranked input drawn for the ranking routine
MaxRankLen == 6

(***************************************************************************)
(* Literals of the component                                               *)
(***************************************************************************)
MsgDemoMode == "Demo mode: actions are simulated for preview only."
MsgSchemaValidated == "Schema validated in demo mode. Ready to run ranking."
MsgSelectTwo == "Select at least two models to generate a ranking."
MsgRunning == "Running benchmark in demo mode..."
MsgGenerated == "Demo ranking generated. Replace with live benchmarking when backend is ready."
MsgAssetsError == "Unable to load live assets. Showing demo catalog."

InputModes == {"single", "dataset"}

InitialRankingRows ==
    << [rank |-> 1, model |-> "Iris-V2", score |-> 87, accuracy |-> 93,
        latency |-> "280ms", cost |-> "$0.011", top |-> TRUE],
       [rank |-> 2, model |-> "Sentinel-Edge", score |-> 84, accuracy |-> 91,
        latency |-> "260ms", cost |-> "$0.015"],
       [rank |-> 3, model |-> "Atlas-Lite", score |-> 78, accuracy |-> 88,
        latency |-> "410ms", cost |-> "$0.013"],
       [rank |-> 4, model |-> "Forge-XL", score |-> 72, accuracy |-> 84,
        latency |-> "390ms", cost |-> "$0.009"] >>

Asset(id, name) == [id |-> id, name |-> name]

buildDemoAssets ==
    << Asset("demo-iris", "Iris-V2"),
       Asset("demo-sentinel", "Sentinel-Edge"),
       Asset("demo-atlas", "Atlas-Lite"),
       Asset("demo-forge", "Forge-XL") >>

(***************************************************************************)
(* Array helpers as the code uses them                                     *)
(***************************************************************************)
Min(a, b) == IF a <= b THEN a ELSE b

\* Array.prototype.includes
Includes(seq, x) == \E i \in 1..Len(seq) : seq[i] = x

\* array.slice(0, n)
Slice0(seq, n) == SubSeq(seq, 1, Min(n, Len(seq)))

\* array.map((asset) => asset.id)
MapIds(assets) == [i \in 1..Len(assets) |-> assets[i].id]

\* selectedAssetIds.filter((id) => id !== x)
FilterOutId(ids, x) == SelectSeq(ids, LAMBDA id : id # x)

(***************************************************************************)
(* Ranking engine: buildRankingRow and the map / sort / map of runRanking  *)
(***************************************************************************)
\* The four keys of scoreMap.  Asset ids are catalog identifiers; ids that
\* name a member of Object.prototype are not drawn anywhere in this model.
KnownIds ==
    { "asset-user1-sentiment-api", "asset-user1-fraud-api",
      "asset-user1-segmentation-model", "asset-user1-credit-model" }

\* scoreMap[asset.id], with model: asset.name
scoreMap(asset) ==
    CASE asset.id = "asset-user1-sentiment-api" ->
           [rank |-> 0, model |-> asset.name, score |-> 86, accuracy |-> 92,
            latency |-> "300ms", cost |-> "$0.012"]
      [] asset.id = "asset-user1-fraud-api" ->
           [rank |-> 0, model |-> asset.name, score |-> 88, accuracy |-> 94,
            latency |-> "260ms", cost |-> "$0.014"]
      [] asset.id = "asset-user1-segmentation-model" ->
           [rank |-> 0, model |-> asset.name, score |-> 82, accuracy |-> 90,
            latency |-> "420ms", cost |-> "$0.016"]
      [] asset.id = "asset-user1-credit-model" ->
           [rank |-> 0, model |-> asset.name, score |-> 84, accuracy |-> 91,
            latency |-> "310ms", cost |-> "$0.011"]

fallbackScores == << 87, 85, 82, 79, 76 >>

\* variant: the cycle is entered one place late
FallbackScoreShifted(index) == fallbackScores[((index + 1) % Len(fallbackScores)) + 1]

\* fallbackScores[index % fallbackScores.length], index 0-based
FallbackScore(index) == fallbackScores[(index % Len(fallbackScores)) + 1]

\* the object literal after ||
FallbackRow(asset, index) ==
    [rank |-> 0, model |-> asset.name, score |-> FallbackScore(index),
     accuracy |-> Min(95, FallbackScore(index) + 6),
     latency |-> ToString(280 + index * 40) \o "ms",
     cost |-> "$0.0" \o ToString(12 + index)]

\* variant: the computed fallback score overrides the table's score
buildRankingRowComputedScore(asset, index) ==
    IF asset.id \in KnownIds
    THEN [scoreMap(asset) EXCEPT !.score = FallbackScore(index)]
    ELSE FallbackRow(asset, index)

\* buildRankingRow(asset, index), index 0-based
buildRankingRow(asset, index) ==
    IF asset.id \in KnownIds THEN scoreMap(asset) ELSE FallbackRow(asset, index)

\* modelPoolAssets.filter((asset) => selectedAssetIds.includes(asset.id))
SelectedAssets(pool, ids) == SelectSeq(pool, LAMBDA asset : Includes(ids, asset.id))

\* selectedAssets.map((asset, index) => this.buildRankingRow(asset, index))
RawRows(assets) == [i \in 1..Len(assets) |-> buildRankingRow(assets[i], i - 1)]

\* variant: comparator (a, b) => a.score - b.score
CompareRowsAscending(a, b) == a.score - b.score

\* comparator (a, b) => b.score - a.score
CompareRows(a, b) == b.score - a.score

\* variant: rows that compare equal come out in reverse order
SortedPlaceTiesReversed(rows, i) ==
    Cardinality({ j \in 1..Len(rows) : CompareRows(rows[j], rows[i]) < 0 })
      + Cardinality({ j \in i..Len(rows) : CompareRows(rows[j], rows[i]) = 0 })

\* place of rows[i] after a stable sort with the comparator: behind every row
\* that sorts before it and behind the earlier rows that compare equal to it
SortedPlace(rows, i) ==
    Cardinality({ j \in 1..Len(rows) : CompareRows(rows[j], rows[i]) < 0 })
      + Cardinality({ j \in 1..i : CompareRows(rows[j], rows[i]) = 0 })

\* Array.prototype.sort with the comparator above (a stable sort)
SortRows(rows) ==
    [p \in 1..Len(rows) |-> rows[CHOOSE i \in 1..Len(rows) : SortedPlace(rows, i) = p]]

\* variant: rank: index
AssignRanksZeroBased(rows) ==
    [i \in 1..Len(rows) |->
        [rank |-> i - 1, model |-> rows[i].model, score |-> rows[i].score,
         accuracy |-> rows[i].accuracy, latency |-> rows[i].latency,
         cost |-> rows[i].cost, top |-> (i = 1)]]

\* .map((row, index) => ({ ...row, rank: index + 1, top: index === 0 }))
AssignRanks(rows) ==
    [i \in 1..Len(rows) |->
        [rank |-> i, model |-> rows[i].model, score |-> rows[i].score,
         accuracy |-> rows[i].accuracy, latency |-> rows[i].latency,
         cost |-> rows[i].cost, top |-> (i = 1)]]

\* variant: the rows are built over selectedAssetIds in selection order
RankedInSelectionOrder(pool, ids) ==
    CHOOSE ranked \in
        { AssignRanks(sorted) :
            sorted \in { SortRows(rows) :
                rows \in { RawRows(assets) :
                    assets \in { [k \in 1..Len(listed) |->
                                    pool[CHOOSE j \in 1..Len(pool) : pool[j].id = listed[k]]] :
                                 listed \in { SelectSeq(ids, LAMBDA id :
                                                \E j \in 1..Len(pool) : pool[j].id = id) } } } } } :
        TRUE

\* the value assigned to rankingRows by the timer callback: the chain
\* filter, map, sort, map, each link applied to the array the previous one
\* returned
Ranked(pool, ids) ==
    CHOOSE ranked \in
        { AssignRanks(sorted) :
            sorted \in { SortRows(rows) :
                rows \in { RawRows(assets) :
                    assets \in { SelectedAssets(pool, ids) } } } } :
        TRUE

(***************************************************************************)
(* What the asset catalog provider may return on success (ids unique       *)
(* within a catalog), and the assets the view offers for toggling          *)
(***************************************************************************)
KnownCatalog ==
    << Asset("asset-user1-sentiment-api", "Sentiment API"),
       Asset("asset-user1-fraud-api", "Fraud API"),
       Asset("asset-user1-segmentation-model", "Segmentation"),
       Asset("asset-user1-credit-model", "Credit") >>

FraudFirstCatalog ==
    << Asset("asset-user1-fraud-api", "Fraud API"),
       Asset("asset-user1-sentinent-api", "Sentinent API") >>

FraudLastCatalog ==
    << Asset("asset-user1-sentinent-api", "Sentinent API"),
       Asset("asset-user1-fraud-api", "Fraud API") >>

ProviderCatalogs == { << >>, KnownCatalog, FraudFirstCatalog, FraudLastCatalog }

\* the page lists modelPoolAssets and toggles the listed asset
ListedAssets == { modelPoolAssets[i] : i \in 1..Len(modelPoolAssets) }

(***************************************************************************)
(* Initial state: the field initialisers of the class                      *)
(***************************************************************************)
Init ==
    /\ initialized = FALSE
    /\ inputMode = "single"
    /\ isRunning = FALSE
    /\ statusMessage = MsgDemoMode
    /\ modelPoolAssets = << >>
    /\ selectedAssetIds = << >>
    /\ isLoadingAssets = FALSE
    /\ assetsError = ""
    /\ rankingRows = InitialRankingRows
    /\ rankTimers = 0
    /\ pendingFetches = 0

(***************************************************************************)
(* Handlers                                                                *)
(***************************************************************************)
\* body of loadModelPool up to subscribe
loadModelPool ==
    /\ isLoadingAssets' = TRUE
    /\ assetsError' = ""
    /\ pendingFetches' = pendingFetches + 1
    /\ UNCHANGED <<inputMode, isRunning, statusMessage, modelPoolAssets,
                   selectedAssetIds, rankingRows, rankTimers>>

ngOnInit ==
    /\ ~initialized
    /\ initialized' = TRUE
    /\ loadModelPool

\* a further loadModelPool call (catalog reload) on the initialised page
Reload ==
    /\ initialized
    /\ pendingFetches < MaxPendingFetches
    /\ loadModelPool
    /\ UNCHANGED initialized

\* variant: every returned asset is selected
FetchNextSelectAll(assets) ==
    /\ pendingFetches > 0
    /\ pendingFetches' = pendingFetches - 1
    /\ modelPoolAssets' = assets
    /\ selectedAssetIds' = MapIds(assets)
    /\ isLoadingAssets' = FALSE
    /\ UNCHANGED <<initialized, inputMode, isRunning, statusMessage, assetsError,
                   rankingRows, rankTimers>>

\* variant: the default selection is not reset with the catalog
FetchNextKeepSelection(assets) ==
    /\ pendingFetches > 0
    /\ pendingFetches' = pendingFetches - 1
    /\ modelPoolAssets' = assets
    /\ isLoadingAssets' = FALSE
    /\ UNCHANGED <<initialized, inputMode, isRunning, statusMessage, assetsError,
                   selectedAssetIds, rankingRows, rankTimers>>

\* subscribe: next(assets)
FetchNext(assets) ==
    /\ pendingFetches > 0
    /\ pendingFetches' = pendingFetches - 1
    /\ modelPoolAssets' = assets
    /\ selectedAssetIds' = MapIds(Slice0(assets, 3))
    /\ isLoadingAssets' = FALSE
    /\ UNCHANGED <<initialized, inputMode, isRunning, statusMessage, assetsError,
                   rankingRows, rankTimers>>

\* variant: the failure is not reported
FetchErrorSilent ==
    /\ pendingFetches > 0
    /\ pendingFetches' = pendingFetches - 1
    /\ modelPoolAssets' = buildDemoAssets
    /\ selectedAssetIds' = MapIds(Slice0(buildDemoAssets, 3))
    /\ isLoadingAssets' = FALSE
    /\ UNCHANGED <<initialized, inputMode, isRunning, statusMessage, assetsError,
                   rankingRows, rankTimers>>

\* subscribe: error()
FetchError ==
    /\ pendingFetches > 0
    /\ pendingFetches' = pendingFetches - 1
    /\ modelPoolAssets' = buildDemoAssets
    /\ selectedAssetIds' = MapIds(Slice0(buildDemoAssets, 3))
    /\ isLoadingAssets' = FALSE
    /\ assetsError' = MsgAssetsError
    /\ UNCHANGED <<initialized, inputMode, isRunning, statusMessage,
                   rankingRows, rankTimers>>

setInputMode(mode) ==
    /\ initialized
    /\ inputMode' = mode
    /\ UNCHANGED <<initialized, isRunning, statusMessage, modelPoolAssets,
                   selectedAssetIds, isLoadingAssets, assetsError, rankingRows,
                   rankTimers, pendingFetches>>

isAssetSelected(asset) == Includes(selectedAssetIds, asset.id)

\* variant: a newly selected id is put in front
ToggledIdsPrepend(ids, asset) ==
    IF Includes(ids, asset.id)
    THEN FilterOutId(ids, asset.id)
    ELSE << asset.id >> \o ids

\* variant: an id that is selected stays selected
ToggledIdsNeverRemove(ids, asset) ==
    IF Includes(ids, asset.id) THEN ids ELSE Append(ids, asset.id)

\* the value toggleAssetSelection(asset) assigns when the selection is ids
ToggledIds(ids, asset) ==
    IF Includes(ids, asset.id)
    THEN FilterOutId(ids, asset.id)
    ELSE Append(ids, asset.id)

\* variant: the id is appended whether or not it is selected
toggleAlwaysAppend(asset) ==
    /\ initialized
    /\ selectedAssetIds' = Append(selectedAssetIds, asset.id)
    /\ UNCHANGED <<initialized, inputMode, isRunning, statusMessage,
                   modelPoolAssets, isLoadingAssets, assetsError, rankingRows,
                   rankTimers, pendingFetches>>

toggleAssetSelection(asset) ==
    /\ initialized
    /\ selectedAssetIds' = ToggledIds(selectedAssetIds, asset)
    /\ UNCHANGED <<initialized, inputMode, isRunning, statusMessage,
                   modelPoolAssets, isLoadingAssets, assetsError, rankingRows,
                   rankTimers, pendingFetches>>

\* variant: validation is refused while a run is pending
validateSchemaWhenIdle ==
    /\ initialized
    /\ ~isRunning
    /\ statusMessage' = MsgSchemaValidated
    /\ UNCHANGED <<initialized, inputMode, isRunning, modelPoolAssets,
                   selectedAssetIds, isLoadingAssets, assetsError, rankingRows,
                   rankTimers, pendingFetches>>

validateSchema ==
    /\ initialized
    /\ statusMessage' = MsgSchemaValidated
    /\ UNCHANGED <<initialized, inputMode, isRunning, modelPoolAssets,
                   selectedAssetIds, isLoadingAssets, assetsError, rankingRows,
                   rankTimers, pendingFetches>>

\* variant: no isRunning guard
runRankingNoRunningGuard ==
    /\ initialized
    /\ IF Len(selectedAssetIds) < 2
       THEN /\ statusMessage' = MsgSelectTwo
            /\ UNCHANGED <<isRunning, rankTimers>>
       ELSE /\ isRunning' = TRUE
            /\ statusMessage' = MsgRunning
            /\ rankTimers' = rankTimers + 1
    /\ UNCHANGED <<initialized, inputMode, modelPoolAssets, selectedAssetIds,
                   isLoadingAssets, assetsError, rankingRows, pendingFetches>>

\* variant: the selection is validated before the isRunning guard
runRankingSelectionCheckFirst ==
    /\ initialized
    /\ IF Len(selectedAssetIds) < 2
       THEN /\ statusMessage' = MsgSelectTwo
            /\ UNCHANGED <<isRunning, rankTimers>>
       ELSE IF isRunning
            THEN UNCHANGED <<isRunning, statusMessage, rankTimers>>
            ELSE /\ isRunning' = TRUE
                 /\ statusMessage' = MsgRunning
                 /\ rankTimers' = rankTimers + 1
    /\ UNCHANGED <<initialized, inputMode, modelPoolAssets, selectedAssetIds,
                   isLoadingAssets, assetsError, rankingRows, pendingFetches>>

\* variant: a single selected id is enough to start a run
runRankingThresholdOne ==
    /\ initialized
    /\ IF isRunning
       THEN UNCHANGED <<isRunning, statusMessage, rankTimers>>
       ELSE IF Len(selectedAssetIds) < 1
            THEN /\ statusMessage' = MsgSelectTwo
                 /\ UNCHANGED <<isRunning, rankTimers>>
            ELSE /\ isRunning' = TRUE
                 /\ statusMessage' = MsgRunning
                 /\ rankTimers' = rankTimers + 1
    /\ UNCHANGED <<initialized, inputMode, modelPoolAssets, selectedAssetIds,
                   isLoadingAssets, assetsError, rankingRows, pendingFetches>>

\* variant: the selection is not validated
runRankingNoSelectionCheck ==
    /\ initialized
    /\ IF isRunning
       THEN UNCHANGED <<isRunning, statusMessage, rankTimers>>
       ELSE /\ isRunning' = TRUE
            /\ statusMessage' = MsgRunning
            /\ rankTimers' = rankTimers + 1
    /\ UNCHANGED <<initialized, inputMode, modelPoolAssets, selectedAssetIds,
                   isLoadingAssets, assetsError, rankingRows, pendingFetches>>

\* runRanking up to and including window.setTimeout
runRanking ==
    /\ initialized
    /\ IF isRunning
       THEN UNCHANGED <<isRunning, statusMessage, rankTimers>>
       ELSE IF Len(selectedAssetIds) < 2
            THEN /\ statusMessage' = MsgSelectTwo
                 /\ UNCHANGED <<isRunning, rankTimers>>
            ELSE /\ isRunning' = TRUE
                 /\ statusMessage' = MsgRunning
                 /\ rankTimers' = rankTimers + 1
    /\ UNCHANGED <<initialized, inputMode, modelPoolAssets, selectedAssetIds,
                   isLoadingAssets, assetsError, rankingRows, pendingFetches>>

\* variant: the callback forgets this.isRunning = false
RankingTimerFiresStaysRunning ==
    /\ rankTimers > 0
    /\ rankTimers' = rankTimers - 1
    /\ rankingRows' = Ranked(modelPoolAssets, selectedAssetIds)
    /\ statusMessage' = MsgGenerated
    /\ UNCHANGED <<initialized, inputMode, isRunning, modelPoolAssets,
                   selectedAssetIds, isLoadingAssets, assetsError, pendingFetches>>

\* the callback handed to window.setTimeout
RankingTimerFires ==
    /\ rankTimers > 0
    /\ rankTimers' = rankTimers - 1
    /\ rankingRows' = Ranked(modelPoolAssets, selectedAssetIds)
    /\ isRunning' = FALSE
    /\ statusMessage' = MsgGenerated
    /\ UNCHANGED <<initialized, inputMode, modelPoolAssets, selectedAssetIds,
                   isLoadingAssets, assetsError, pendingFetches>>

Next ==
    \/ ngOnInit
    \/ Reload
    \/ \E assets \in ProviderCatalogs : FetchNext(assets)
    \/ FetchError
    \/ \E mode \in InputModes : setInputMode(mode)
    \/ \E asset \in ListedAssets : toggleAssetSelection(asset)
    \/ validateSchema
    \/ runRanking
    \/ RankingTimerFires

Spec == Init /\ [][Next]_vars

\* the browser runs every scheduled timer callback: a pending ranking timer
\* fires after its 1200 ms
FairSpec == Spec /\ WF_vars(RankingTimerFires)

(***************************************************************************)
(* The ranking routine on its own: a run is pending over a catalog of      *)
(* MaxRankLen or fewer assets, all of them selected, and the timer fires.  *)
(***************************************************************************)
RankAssets ==
    { KnownCatalog[i] : i \in 1..Len(KnownCatalog) }
      \cup { Asset("asset-user1-sentinent-api", "Sentinent API"),
             Asset("demo-iris", "Iris-V2"),
             Asset("demo-forge", "Forge-XL") }

\* the sequences of n different assets of S
RECURSIVE Arrangements(_, _)
Arrangements(S, n) ==
    IF n = 0 THEN { << >> }
    ELSE UNION { { << x >> \o rest : rest \in Arrangements(S \ {x}, n - 1) } : x \in S }

RankInputs == UNION { Arrangements(RankAssets, n) : n \in 2..MaxRankLen }

InitRank ==
    /\ initialized = TRUE
    /\ inputMode = "single"
    /\ isRunning = TRUE
    /\ statusMessage = MsgRunning
    /\ modelPoolAssets \in RankInputs
    /\ selectedAssetIds = MapIds(modelPoolAssets)
    /\ isLoadingAssets = FALSE
    /\ assetsError = ""
    /\ rankingRows = InitialRankingRows
    /\ rankTimers = 1
    /\ pendingFetches = 0

NextRank == RankingTimerFires

RankSpec == InitRank /\ [][NextRank]_vars

(***************************************************************************)
(* Properties                                                              *)
(***************************************************************************)
\* a step in which a pending ranking timer fired
TimerFired == rankTimers' < rankTimers

\* C1: in every reachable state at most one ranking timer is pending.
C1_AtMostOneTimer == rankTimers <= 1

C1_Witness == rankTimers = 1 /\ isRunning /\ pendingFetches > 0

\* C2 (as claimed): whenever the run timer fires, at least two assets are
\* ranked, so the leaderboard it stores never has fewer than two rows.
C2_RankedAtLeastTwo ==
    [][TimerFired =>
         /\ Len(SelectedAssets(modelPoolAssets, selectedAssetIds)) >= 2
         /\ Len(rankingRows') >= 2]_vars

\* C3: runRanking while not running with fewer than two ids selected leaves
\* rankingRows and isRunning (false) as they are, schedules no timer and sets
\* statusMessage to the "select at least two" message.
C3_InsufficientSelection ==
    [][(runRanking /\ ~isRunning /\ Len(selectedAssetIds) < 2) =>
         /\ rankingRows' = rankingRows
         /\ isRunning' = FALSE
         /\ rankTimers' = rankTimers
         /\ statusMessage' = MsgSelectTwo]_vars

C3_Witness ==
    /\ statusMessage = MsgSelectTwo
    /\ ~isRunning
    /\ rankTimers = 0
    /\ Len(selectedAssetIds) = 1
    /\ rankingRows = InitialRankingRows

\* C4: runRanking while isRunning changes no state variable and schedules no
\* further timer, also when fewer than two ids are selected at that moment.
C4_ReentrantRunIsNoOp ==
    [][(runRanking /\ isRunning) => UNCHANGED vars]_vars

C4_Witness ==
    /\ isRunning
    /\ rankTimers = 1
    /\ Len(selectedAssetIds) < 2
    /\ statusMessage = MsgRunning

\* C5: ranking a selection of n >= 2 assets stores exactly n rows whose rank
\* fields are 1..n in ascending order of position.
C5_DenseRanks ==
    [][(TimerFired /\ Len(selectedAssetIds) >= 2) =>
         /\ Len(rankingRows') = Len(selectedAssetIds)
         /\ \A i \in 1..Len(rankingRows') : rankingRows'[i].rank = i]_vars

C5_Witness ==
    /\ rankTimers = 0
    /\ statusMessage = MsgGenerated
    /\ Len(selectedAssetIds) = 5
    /\ Len(rankingRows) = 5
    /\ rankingRows[5].rank = 5

\* C6 (as claimed): every leaderboard stored by a completed run has
\* non-increasing scores, exactly one row with top = true, and that row has
\* rank 1.
C6_SortedWithSingleTop ==
    [][TimerFired =>
         /\ \A i \in 1..(Len(rankingRows') - 1) :
               rankingRows'[i].score >= rankingRows'[i + 1].score
         /\ Cardinality({ i \in 1..Len(rankingRows') : rankingRows'[i].top }) = 1
         /\ \A i \in 1..Len(rankingRows') :
               rankingRows'[i].top <=> rankingRows'[i].rank = 1]_vars

C8_NoDuplicateSelection ==
    \A i, j \in 1..Len(selectedAssetIds) :
        selectedAssetIds[i] = selectedAssetIds[j] => i = j

C8_Witness ==
    /\ Len(selectedAssetIds) = 4
    /\ selectedAssetIds[4] = modelPoolAssets[1].id
    /\ assetsError = MsgAssetsError

\* the table of the claim: id -> score, accuracy, latency, cost
C9_Table ==
    [id \in KnownIds |->
        CASE id = "asset-user1-sentiment-api" -> << 86, 92, "300ms", "$0.012" >>
          [] id = "asset-user1-fraud-api" -> << 88, 94, "260ms", "$0.014" >>
          [] id = "asset-user1-segmentation-model" -> << 82, 90, "420ms", "$0.016" >>
          [] id = "asset-user1-credit-model" -> << 84, 91, "310ms", "$0.011" >>]

\* C9: a ranked asset with one of the four table ids gets that id's score,
\* accuracy, latency and cost at whatever index it is ranked, under its own
\* name.
C9_KnownIdsUseTable ==
    [][TimerFired =>
         \A i \in 1..Len(SelectedAssets(modelPoolAssets, selectedAssetIds)) :
            LET asset == SelectedAssets(modelPoolAssets, selectedAssetIds)[i] IN
            asset.id \in {"asset-user1-sentiment-api", "asset-user1-fraud-api",
                          "asset-user1-segmentation-model", "asset-user1-credit-model"} =>
                \E r \in 1..Len(rankingRows') :
                    /\ rankingRows'[r].model = asset.name
                    /\ << rankingRows'[r].score, rankingRows'[r].accuracy,
                          rankingRows'[r].latency, rankingRows'[r].cost >>
                         = C9_Table[asset.id]]_vars

C9_Witness ==
    /\ rankTimers = 0
    /\ statusMessage = MsgGenerated
    /\ Len(modelPoolAssets) = 6
    /\ modelPoolAssets[6].id = "asset-user1-credit-model"
    /\ modelPoolAssets[1].id = "asset-user1-segmentation-model"
    /\ \E r \in 1..Len(rankingRows) :
          rankingRows[r].model = "Credit" /\ rankingRows[r].score = 84

C11_FraudThenSentinent86 ==
    [][(TimerFired
          /\ Len(selectedAssetIds) = 2
          /\ { modelPoolAssets[i].id : i \in 1..Len(modelPoolAssets) }
                = {"asset-user1-fraud-api", "asset-user1-sentinent-api"}) =>
         /\ Len(rankingRows') = 2
         /\ rankingRows'[1].model = "Fraud API"
         /\ rankingRows'[1].score = 88
         /\ rankingRows'[1].rank = 1
         /\ rankingRows'[1].top = TRUE
         /\ rankingRows'[2].model = "Sentinent API"
         /\ rankingRows'[2].score = 86
         /\ rankingRows'[2].rank = 2]_vars

\* C11 (amended): as above, but the other asset, whose id is not a key of
\* scoreMap, has the fallback score of its index: 85 when it follows
\* fraud-api in the catalog, 87 when it precedes it; it is not top.
C11_FraudThenSentinentFallback ==
    [][(TimerFired
          /\ Len(selectedAssetIds) = 2
          /\ { modelPoolAssets[i].id : i \in 1..Len(modelPoolAssets) }
                = {"asset-user1-fraud-api", "asset-user1-sentinent-api"}) =>
         /\ Len(rankingRows') = 2
         /\ rankingRows'[1].model = "Fraud API"
         /\ rankingRows'[1].score = 88
         /\ rankingRows'[1].rank = 1
         /\ rankingRows'[1].top = TRUE
         /\ rankingRows'[2].model = "Sentinent API"
         /\ rankingRows'[2].score =
               (IF modelPoolAssets[1].id = "asset-user1-fraud-api" THEN 85 ELSE 87)
         /\ rankingRows'[2].rank = 2
         /\ rankingRows'[2].top = FALSE]_vars

C11_Witness ==
    /\ rankTimers = 0
    /\ statusMessage = MsgGenerated
    /\ modelPoolAssets[1].id = "asset-user1-sentinent-api"
    /\ Len(selectedAssetIds) = 2
    /\ Len(rankingRows) = 2
    /\ rankingRows[1].model = "Fraud API"
    /\ rankingRows[2].model = "Sentinent API"
    /\ rankingRows[2].score = 87

\* the set of ids held by a selection
IdSet(ids) == { ids[i] : i \in 1..Len(ids) }

\* C12: toggling the same asset twice in a row leaves the set of selected
\* ids as it was before the two toggles (their order may differ): after any
\* toggle step of an asset, the next toggle of that asset gives back the set
\* held before the step.
C12_DoubleToggleRestoresSet ==
    [][\A asset \in ListedAssets :
          toggleAssetSelection(asset) =>
             IdSet(ToggledIds(selectedAssetIds', asset)) = IdSet(selectedAssetIds)]_vars

\* the default selection of the known catalog after toggling its first asset
\* off and on again
C12_Witness ==
    /\ modelPoolAssets = KnownCatalog
    /\ selectedAssetIds = << "asset-user1-fraud-api", "asset-user1-segmentation-model",
                             "asset-user1-sentiment-api" >>

\* C13: toggling a selected asset removes its id and keeps the other ids in
\* their order; toggling an unselected asset appends its id and keeps the
\* others in order.  From the default [A,B,C] of catalog [A,B,C,D], toggling
\* D and then A yields [B,C,D].
C13_ToggleRemovesOrAppends ==
    [][\A asset \in ListedAssets :
          toggleAssetSelection(asset) =>
             LET old == selectedAssetIds
                 new == selectedAssetIds'
             IN  /\ (\E p \in 1..Len(old) : old[p] = asset.id) =>
                       /\ Len(new) = Len(old) - 1
                       /\ \A i \in 1..Len(new) : new[i] # asset.id
                       /\ \E p \in 1..Len(old) :
                             /\ old[p] = asset.id
                             /\ \A i \in 1..Len(new) :
                                   new[i] = IF i < p THEN old[i] ELSE old[i + 1]
                 /\ (\A p \in 1..Len(old) : old[p] # asset.id) =>
                       /\ Len(new) = Len(old) + 1
                       /\ new[Len(new)] = asset.id
                       /\ \A i \in 1..Len(old) : new[i] = old[i]
                 /\ (modelPoolAssets = KnownCatalog
                       /\ old = << "asset-user1-sentiment-api", "asset-user1-fraud-api",
                                   "asset-user1-segmentation-model",
                                   "asset-user1-credit-model" >>
                       /\ asset.id = "asset-user1-sentiment-api") =>
                       new = << "asset-user1-fraud-api", "asset-user1-segmentation-model",
                                "asset-user1-credit-model" >>]_vars

C13_Witness ==
    /\ modelPoolAssets = KnownCatalog
    /\ selectedAssetIds = << "asset-user1-fraud-api", "asset-user1-segmentation-model",
                             "asset-user1-credit-model" >>

C15_FetchFailure ==
    [][FetchError =>
         /\ Len(modelPoolAssets') = 4
         /\ [i \in 1..4 |-> modelPoolAssets'[i].id]
               = << "demo-iris", "demo-sentinel", "demo-atlas", "demo-forge" >>
         /\ [i \in 1..4 |-> modelPoolAssets'[i].name]
               = << "Iris-V2", "Sentinel-Edge", "Atlas-Lite", "Forge-XL" >>
         /\ selectedAssetIds' = << "demo-iris", "demo-sentinel", "demo-atlas" >>
         /\ isLoadingAssets' = FALSE
         /\ assetsError' # ""]_vars

C15_Witness ==
    /\ Len(modelPoolAssets) = 4
    /\ modelPoolAssets[4].id = "demo-forge"
    /\ selectedAssetIds = << "demo-iris", "demo-sentinel", "demo-atlas" >>
    /\ ~isLoadingAssets
    /\ assetsError = MsgAssetsError
    /\ pendingFetches = 0

\* C16: under fairness of the timer every run that starts completes:
\* isRunning returns to false; until the timer fires no step cancels the
\* pending timer or clears isRunning, and the step that clears isRunning is
\* the timer's, which stores the leaderboard of the assets then selected.
C16_RunCompletes ==
    /\ isRunning ~> ~isRunning
    /\ [][(rankTimers > 0 /\ ~TimerFired) =>
             (rankTimers' = rankTimers /\ isRunning' = isRunning)]_vars
    /\ [][(isRunning /\ ~isRunning') =>
             /\ TimerFired
             /\ statusMessage' = MsgGenerated
             /\ Len(rankingRows') =
                   Cardinality({ i \in 1..Len(modelPoolAssets) :
                                   \E j \in 1..Len(selectedAssetIds) :
                                       selectedAssetIds[j] = modelPoolAssets[i].id })
             /\ \A r \in 1..Len(rankingRows') :
                   \E i \in 1..Len(modelPoolAssets) :
                       /\ rankingRows'[r].model = modelPoolAssets[i].name
                       /\ \E j \in 1..Len(selectedAssetIds) :
                             selectedAssetIds[j] = modelPoolAssets[i].id]_vars

\* a run completed after a toggle, an input-mode switch and a further fetch
C16_Witness ==
    /\ ~isRunning
    /\ rankTimers = 0
    /\ statusMessage = MsgGenerated
    /\ inputMode = "dataset"
    /\ pendingFetches > 0
    /\ Len(selectedAssetIds) = 4
    /\ Len(rankingRows) = 4
    /\ rankingRows # InitialRankingRows

\* number of selected catalog assets listed before catalog position i
SelectedBefore(i) ==
    Cardinality({ j \in 1..(i - 1) :
                    \E s \in 1..Len(selectedAssetIds) :
                        selectedAssetIds[s] = modelPoolAssets[j].id })

\* C17: when the timer fires the leaderboard is computed from the selection
\* and catalog of that moment: one row per catalog asset whose id is then
\* selected, scored with the asset's position in catalog order among the
\* selected assets (not its position in selectedAssetIds or in the catalog).
C17_RankedAtFireTime ==
    [][TimerFired =>
         /\ Len(rankingRows') =
               Cardinality({ i \in 1..Len(modelPoolAssets) :
                               \E s \in 1..Len(selectedAssetIds) :
                                   selectedAssetIds[s] = modelPoolAssets[i].id })
         /\ \A i \in 1..Len(modelPoolAssets) :
               ((\E s \in 1..Len(selectedAssetIds) :
                     selectedAssetIds[s] = modelPoolAssets[i].id)
                 /\ modelPoolAssets[i].id \notin
                       {"asset-user1-sentiment-api", "asset-user1-fraud-api",
                        "asset-user1-segmentation-model", "asset-user1-credit-model"}) =>
                  \E r \in 1..Len(rankingRows') :
                     /\ rankingRows'[r].model = modelPoolAssets[i].name
                     /\ rankingRows'[r].score =
                           << 87, 85, 82, 79, 76 >>[(SelectedBefore(i) % 5) + 1]
                     /\ rankingRows'[r].latency =
                           ToString(280 + 40 * SelectedBefore(i)) \o "ms"]_vars

\* demo catalog, forge selected before atlas, iris and sentinel deselected:
\* atlas is scored with index 0 and forge with index 1
C17_Witness ==
    /\ rankTimers = 0
    /\ statusMessage = MsgGenerated
    /\ selectedAssetIds = << "demo-forge", "demo-atlas" >>
    /\ Len(rankingRows) = 2
    /\ rankingRows[1].model = "Atlas-Lite"
    /\ rankingRows[1].score = 87
    /\ rankingRows[1].latency = "280ms"
    /\ rankingRows[2].model = "Forge-XL"
    /\ rankingRows[2].score = 85
    /\ rankingRows[2].latency = "320ms"

\* 1-based place, in the ranked input, of the asset shown under name
InputPlace(name) ==
    CHOOSE i \in 1..Len(SelectedAssets(modelPoolAssets, selectedAssetIds)) :
        SelectedAssets(modelPoolAssets, selectedAssetIds)[i].name = name

\* C18: rows of equal score appear in the leaderboard in the relative order
\* of their assets in the ranked input and get distinct, consecutive ranks
\* (no row of another score stands between them).
C18_TiesKeepInputOrder ==
    [][TimerFired =>
         \A r1, r2 \in 1..Len(rankingRows') :
            (r1 < r2 /\ rankingRows'[r1].score = rankingRows'[r2].score) =>
               /\ InputPlace(rankingRows'[r1].model) < InputPlace(rankingRows'[r2].model)
               /\ rankingRows'[r1].rank < rankingRows'[r2].rank
               /\ \A r \in r1..r2 : rankingRows'[r].score = rankingRows'[r1].score
               /\ (r2 = r1 + 1) => rankingRows'[r2].rank = rankingRows'[r1].rank + 1]_vars

\* unknown ids at indices 0 and 5 tie at 87, and the known segmentation id
\* ties at 82 with the unknown id at index 2
C18_Witness ==
    /\ rankTimers = 0
    /\ statusMessage = MsgGenerated
    /\ Len(modelPoolAssets) = 6
    /\ modelPoolAssets[1].id = "demo-forge"
    /\ modelPoolAssets[2].id = "asset-user1-segmentation-model"
    /\ modelPoolAssets[3].id = "asset-user1-sentinent-api"
    /\ modelPoolAssets[6].id = "demo-iris"
    /\ \E r \in 1..5 :
          /\ rankingRows[r].model = "Forge-XL"
          /\ rankingRows[r + 1].model = "Iris-V2"
          /\ rankingRows[r].score = 87
          /\ rankingRows[r + 1].score = 87
    /\ \E r \in 1..5 :
          /\ rankingRows[r].model = "Segmentation"
          /\ rankingRows[r + 1].model = "Sentinent API"
          /\ rankingRows[r].score = 82
          /\ rankingRows[r + 1].score = 82

\* C19: validateSchema can be called in every state of the initialised page,
\* also while loading and while running, and changes only statusMessage.
C19_ValidateSchemaOnlyStatus ==
    /\ [](initialized => ENABLED validateSchema)
    /\ [][validateSchema =>
             /\ statusMessage' = MsgSchemaValidated
             /\ isRunning' = isRunning
             /\ rankTimers' = rankTimers
             /\ rankingRows' = rankingRows
             /\ selectedAssetIds' = selectedAssetIds
             /\ modelPoolAssets' = modelPoolAssets
             /\ isLoadingAssets' = isLoadingAssets
             /\ assetsError' = assetsError
             /\ pendingFetches' = pendingFetches
             /\ inputMode' = inputMode]_vars

C19_Witness ==
    /\ statusMessage = MsgSchemaValidated
    /\ isRunning
    /\ rankTimers = 1
    /\ isLoadingAssets
    /\ pendingFetches > 0
    /\ rankingRows = InitialRankingRows

\* the page as it is while no catalog response has arrived
AwaitingFirstCatalog ==
    /\ modelPoolAssets = << >>
    /\ selectedAssetIds = << >>
    /\ isRunning = FALSE
    /\ rankTimers = 0
    /\ rankingRows =
          << [rank |-> 1, model |-> "Iris-V2", score |-> 87, accuracy |-> 93,
              latency |-> "280ms", cost |-> "$0.011", top |-> TRUE],
             [rank |-> 2, model |-> "Sentinel-Edge", score |-> 84, accuracy |-> 91,
              latency |-> "260ms", cost |-> "$0.015"],
             [rank |-> 3, model |-> "Atlas-Lite", score |-> 78, accuracy |-> 88,
              latency |-> "410ms", cost |-> "$0.013"],
             [rank |-> 4, model |-> "Forge-XL", score |-> 72, accuracy |-> 84,
              latency |-> "390ms", cost |-> "$0.009"] >>

\* a step in which a catalog response (success or failure) arrived
CatalogResponded == pendingFetches' < pendingFetches

\* C20: before the first catalog response no run can start: the page starts
\* with an empty selection, isRunning false and the four canned rows, every
\* step other than a catalog response keeps it so, and every runRanking call
\* made meanwhile is rejected with the validation message.
C20_NoRunBeforeCatalog ==
    /\ AwaitingFirstCatalog
    /\ [][(AwaitingFirstCatalog /\ ~CatalogResponded) => AwaitingFirstCatalog']_vars
    /\ [][(AwaitingFirstCatalog /\ runRanking) =>
             /\ statusMessage' = MsgSelectTwo
             /\ isRunning' = FALSE
             /\ rankTimers' = 0]_vars

C20_Witness ==
    /\ initialized
    /\ isLoadingAssets
    /\ pendingFetches = 1
    /\ AwaitingFirstCatalog
    /\ statusMessage = MsgSelectTwo
    /\ assetsError = ""

====
